---------------------------- MODULE Spec2Model ----------------------------
(***************************************************************************)
(* Two-player turn timer with LCD readout (src/Pi-LCD/timer-lcd.py).       *)
(*                                                                         *)
(* Two threads run the program: the main thread (lcd_idle, then the        *)
(* polling loop and its finally block) and the gpiozero callback thread    *)
(* that runs on_press for every debounced button press.  They share the    *)
(* globals state / active_player / deadline, the three LEDs, the buzzer    *)
(* and the lcd object, with no lock.  Each thread is modelled statement by *)
(* statement; a call of a driver method (lcd_clear, lcd_display_string,    *)
(* init_hw, reopen) is one step whose outcome is success or OSError.       *)
(*                                                                         *)
(* Time: instants are kept relative to the present reading of the clock,   *)
(* in ticks of 1/TicksPerSecond s.  monotonic is therefore always 0 and    *)
(* the passage of one tick (ClockTick) moves the stored deadline one tick  *)
(* nearer; instants in the past are not told apart.                        *)
(***************************************************************************)
EXTENDS Integers, Sequences, FiniteSets, TLC

\* ---- CONFIG (timer-lcd.py lines 12-14) ----
TURN_SECONDS == 10
WARN_YELLOW == 4
WARN_RED == 2

\* ---- resolution of the modelled clock ----
TicksPerSecond == 2

\* ---- the surroundings explored when the bus is unreliable ----
MaxPresses == 1
MaxFaults == 2
\* an OSError inside lcd_display_string comes after at most MaxPartial
\* characters reached the display, or after all 16
MaxPartial == 1

monotonic == 0
Elapsed == monotonic

\* deadline = None is the empty tuple, a deadline instant d is <<d>>
None == << >>

VARIABLES
    state,          \* "IDLE" | "P1_RUNNING" | "P2_RUNNING" | "TIMEOUT"
    active_player,  \* 1 | 2
    deadline,       \* None or <<instant>>
    deadline_owner, \* history: the player whose start_turn wrote deadline (0: nobody)
    LED_G, LED_Y, LED_R,   \* "off" | "on" | "blink"
    cue,            \* the buzzer cue played last: <<count, freq>> or << >>
    rows,           \* what the LCD shows: rows[1], rows[2], 16 characters each
    bus_open,       \* i2c_device.bus is a usable handle
    pc,             \* main thread: the statement it is at
    lw,             \* main thread: the guarded LCD call it is in
    seen_state,     \* main thread: the value of state read at line 227
    seen_owner,     \* main thread: history, deadline_owner when line 228 read deadline
    remaining,      \* main thread: the variable remaining (line 228)
    shown_player,   \* main thread: the player argument of lcd_safe_show
    exc,            \* main thread: the exception that ended the loop
    timed_out,      \* history: while state is "TIMEOUT", the player of the turn
                    \* that line 233 declared timed out (0 otherwise)
    hpc,            \* callback thread: the statement it is at
    hw,             \* callback thread: the guarded LCD call it is in
    player,         \* callback thread: the argument of start_turn
    trig_state,     \* callback thread: history, state when on_press read it (line 214)
    trig_player,    \* callback thread: history, active_player at that moment
    env,            \* the surroundings: env.faults (the times the bus may still
                    \* fail), env.interrupts (Ctrl-C may come), env.presses (the
                    \* presses still to come, -1: any number)
    wire,           \* driver: the bytes the driver method called last wrote to the bus
    hd,             \* driver: the state of the display controller
    dcall,          \* driver: the method called last (dcall.op, its arguments, the
                    \* file of the driver, the method called before it, the calls so far)
    txn             \* driver: the calls under way in the two threads, byte by byte:
                    \* txn.main and txn.cb are the bus bytes the call of the main
                    \* thread and of the callback thread have still to write,
                    \* txn.by names the thread that wrote each byte put on the bus

session == <<state, active_player, deadline, deadline_owner, timed_out>>
leds == <<LED_G, LED_Y, LED_R>>
device == <<rows, bus_open>>
mainlocals == <<seen_state, seen_owner, remaining, shown_player, exc>>
cblocals == <<player, trig_state, trig_player>>
Unlimited == 0 - 1
driver == <<wire, hd, dcall, txn>>
program == <<state, active_player, deadline, deadline_owner, LED_G, LED_Y, LED_R,
             cue, rows, bus_open, pc, lw, seen_state, seen_owner, remaining,
             shown_player, exc, timed_out, hpc, hw, player, trig_state, trig_player, env>>
vars == <<state, active_player, deadline, deadline_owner, LED_G, LED_Y, LED_R,
          cue, rows, bus_open, pc, lw, seen_state, seen_owner, remaining,
          shown_player, exc, timed_out, hpc, hw, player, trig_state, trig_player, env,
          wire, hd, dcall, txn>>

RUNNING == {"P1_RUNNING", "P2_RUNNING"}
PartyOf(st) == IF st = "P1_RUNNING" THEN 1 ELSE 2

\* ------------------------------------------------------------------
\* Text formatting
\* ------------------------------------------------------------------
Spaces(n) == SubSeq("                ", 1, n)

\* str.ljust(16)[:16]   (lcd_display_string, line 127)
ljust16(s) == IF Len(s) >= 16 THEN SubSeq(s, 1, 16) ELSE s \o Spaces(16 - Len(s))

\* f"{remaining:>3}"
rjust3(n) == LET s == ToString(n) IN IF Len(s) >= 3 THEN s ELSE Spaces(3 - Len(s)) \o s

BlankRow == Spaces(16)
BlankRows == <<BlankRow, BlankRow>>

\* ------------------------------------------------------------------
\* The LCD driver on the wire (class lcd, lines 49-129).  A bus write is
\* one byte; the bytes an operation writes are a sequence, in order.
\* ------------------------------------------------------------------
\* Commands (52-57)
LCD_CLEARDISPLAY == 1
LCD_RETURNHOME == 2
LCD_ENTRYMODESET == 4
LCD_DISPLAYCONTROL == 8
LCD_FUNCTIONSET == 32
LCD_SETDDRAMADDR == 128
\* Entry mode flags (60)
LCD_ENTRYLEFT == 2
\* Display control flags (64-66)
LCD_DISPLAYON == 4
LCD_CURSOROFF == 0
LCD_BLINKOFF == 0
\* Function set flags (69-71)
LCD_4BITMODE == 0
LCD_2LINE == 8
LCD_5x8DOTS == 0
\* Backlight (74) and control bits (77-79)
LCD_BACKLIGHT == 8
En == 4
Rw == 2
Rs == 1

\* Python's & and | on non-negative integers, and a & ~b
RECURSIVE BitAnd(_, _)
BitAnd(a, b) ==
    IF a = 0 \/ b = 0 THEN 0
    ELSE (a % 2) * (b % 2) + 2 * BitAnd(a \div 2, b \div 2)
BitOr(a, b) == a + b - BitAnd(a, b)
BitAndNot(a, b) == a - BitAnd(a, b)

\* ord(ch) for the printable ASCII characters (32..126); the three
\* characters that cannot be written in a string here (34, 92, 96) are left
\* out of the alphabet and their places hold a space
Ascii == " ! #$%&'()*+,-./0123456789:;<=>?@ABCDEFGHIJKLMNOPQRSTUVWXYZ[ ]^_ abcdefghijklmnopqrstuvwxyz{|}~"
ord(ch) ==
    IF ch = " " THEN 32 ELSE 31 + CHOOSE i \in 1..Len(Ascii) : SubSeq(Ascii, i, i) = ch

\* i2c_device.write_cmd (45-47): one byte on the bus
write_cmd(cmd) == <<cmd>>

\* lcd.lcd_strobe (101-105)
lcd_strobe_held(data) ==
    write_cmd(BitOr(BitOr(data, En), LCD_BACKLIGHT))
        \o write_cmd(BitOr(BitOr(data, En), LCD_BACKLIGHT))
lcd_strobe(data) ==
    write_cmd(BitOr(BitOr(data, En), LCD_BACKLIGHT))
        \o write_cmd(BitOr(BitAndNot(data, En), LCD_BACKLIGHT))

\* lcd.lcd_write_four_bits (107-109)
lcd_write_four_bits_dark(data) ==
    write_cmd(data) \o lcd_strobe(data)
lcd_write_four_bits(data) ==
    write_cmd(BitOr(data, LCD_BACKLIGHT)) \o lcd_strobe(data)

\* lcd.lcd_write (111-113); 0xF0 is 240, cmd << 4 is cmd * 16
lcd_write_low_first(cmd, mode) ==
    lcd_write_four_bits(BitOr(mode, BitAnd(cmd * 16, 240)))
        \o lcd_write_four_bits(BitOr(mode, BitAnd(cmd, 240)))
lcd_write(cmd, mode) ==
    lcd_write_four_bits(BitOr(mode, BitAnd(cmd, 240)))
        \o lcd_write_four_bits(BitOr(mode, BitAnd(cmd * 16, 240)))

\* lcd.lcd_clear (116-119) on the wire
lcd_clear_wire == lcd_write(LCD_CLEARDISPLAY, 0) \o lcd_write(LCD_RETURNHOME, 0)

\* for ch in string: self.lcd_write(ord(ch), self.Rs)   (128-129)
RECURSIVE write_chars(_)
write_chars(string) ==
    IF Len(string) = 0 THEN << >>
    ELSE lcd_write(ord(SubSeq(string, 1, 1)), Rs)
            \o write_chars(SubSeq(string, 2, Len(string)))

\* lcd.lcd_display_string (121-129) on the wire
lcd_display_string_unaddressed(string, line) ==
    (IF line = 1 THEN lcd_write(BitOr(LCD_ENTRYMODESET, LCD_ENTRYLEFT), 0)
     ELSE IF line = 2 THEN lcd_write(BitOr(LCD_SETDDRAMADDR, 64), 0)
     ELSE << >>)
        \o write_chars(ljust16(string))
lcd_display_string_wire(string, line) ==
    (IF line = 1 THEN lcd_write(BitOr(LCD_SETDDRAMADDR, 0), 0)
     ELSE IF line = 2 THEN lcd_write(BitOr(LCD_SETDDRAMADDR, 64), 0)
     ELSE << >>)
        \o write_chars(ljust16(string))

\* The same method in the driver of src/Pi-LCD/1-lcd.py (109-120): line 1
\* is announced by the entry-mode command 0x06, line 2 by 0xC0, and the
\* string is padded by str.ljust(16, " ") without being cut
ljust(s) == IF Len(s) >= 16 THEN s ELSE s \o Spaces(16 - Len(s))
lcd_display_string_1lcd(string, line) ==
    (IF line = 1 THEN lcd_write(6, 0) ELSE << >>)
        \o (IF line = 2 THEN lcd_write(192, 0) ELSE << >>)
        \o write_chars(ljust(string))

\* lcd.init_hw (86-93) on the wire
init_hw_shifting ==
    lcd_write(3, 0) \o lcd_write(3, 0) \o lcd_write(3, 0) \o lcd_write(2, 0)
        \o lcd_write(BitOr(BitOr(BitOr(LCD_FUNCTIONSET, LCD_2LINE), LCD_5x8DOTS),
                           LCD_4BITMODE), 0)
        \o lcd_write(BitOr(BitOr(BitOr(LCD_DISPLAYCONTROL, LCD_DISPLAYON), LCD_CURSOROFF),
                           LCD_BLINKOFF), 0)
        \o lcd_write(BitOr(BitOr(LCD_ENTRYMODESET, LCD_ENTRYLEFT), 1), 0)
        \o lcd_clear_wire
init_hw_wire ==
    lcd_write(3, 0) \o lcd_write(3, 0) \o lcd_write(3, 0) \o lcd_write(2, 0)
        \o lcd_write(BitOr(BitOr(BitOr(LCD_FUNCTIONSET, LCD_2LINE), LCD_5x8DOTS), LCD_4BITMODE), 0)
        \o lcd_write(BitOr(BitOr(BitOr(LCD_DISPLAYCONTROL, LCD_DISPLAYON), LCD_CURSOROFF), LCD_BLINKOFF), 0)
        \o lcd_write(BitOr(LCD_ENTRYMODESET, LCD_ENTRYLEFT), 0)
        \o lcd_clear_wire

\* ------------------------------------------------------------------
\* The display module the driver is written for: "16x2 I2C LCD (HD44780
\* over PCF8574)" (line 50).  The expander puts each bus byte on the
\* controller's pins: bit 0 RS, bit 1 RW, bit 2 E, bit 3 backlight, bits
\* 4-7 D4-D7.  The controller, in 4-bit mode, latches D4-D7 at each falling
\* edge of E and takes two nibbles, high first, as one byte: an instruction
\* when RS is clear, a character for the DDRAM when RS is set.
\* ------------------------------------------------------------------
\* the pin of mask (one bit) is high in b
Bit(b, mask) == (b \div mask) % 2 = 1

\* E falls after bus byte i of w: w[i] has E set and w[i + 1] has not
Falls(w, i) == Bit(w[i], En) /\ ~Bit(w[i + 1], En)

\* the nibbles the controller latches from w, in order
Latched(w) ==
    LET at == SelectSeq([i \in 1..(Len(w) - 1) |-> i], LAMBDA i : Falls(w, i))
    IN  [k \in 1..Len(at) |-> [rs |-> Bit(w[at[k]], Rs), nib |-> w[at[k]] \div 16]]

\* the bytes the controller assembles from them
Paired(ns) ==
    [k \in 1..(Len(ns) \div 2) |->
        [rs |-> ns[2 * k - 1].rs, byte |-> ns[2 * k - 1].nib * 16 + ns[2 * k].nib]]

LogicalBytes(w) == Paired(Latched(w))

\* The state of the controller: DDRAM (two lines of 40 character codes, at
\* addresses 0x00-0x27 and 0x40-0x67), address counter, entry mode (id:
\* increment, s: shift the display on write), display control, display shift.
BlankLine == [n \in 1..40 |-> 32]
\* the controller after its power-on reset: cleared, one line, display off
PowerOn ==
    [ddram |-> <<BlankLine, BlankLine>>, ac |-> 0, id |-> TRUE, s |-> FALSE,
     on |-> FALSE, cursor |-> FALSE, blink |-> FALSE, twoline |-> FALSE, shift |-> 0]

\* the address counter after a character is written or the cursor moved
NextAddr(a, inc) ==
    IF inc THEN (IF a = 39 THEN 64 ELSE IF a = 103 THEN 0 ELSE a + 1)
    ELSE (IF a = 0 THEN 103 ELSE IF a = 64 THEN 39 ELSE a - 1)

NextShift(sh, right) == IF right THEN (sh + 39) % 40 ELSE (sh + 1) % 40

\* an instruction byte b (RS clear)
DevCommand(d, b) ==
    IF b >= LCD_SETDDRAMADDR THEN [d EXCEPT !.ac = b - LCD_SETDDRAMADDR]
    ELSE IF b >= 64 THEN d
    ELSE IF b >= LCD_FUNCTIONSET THEN [d EXCEPT !.twoline = Bit(b, 8)]
    ELSE IF b >= 16
         THEN IF Bit(b, 8) THEN [d EXCEPT !.shift = NextShift(d.shift, Bit(b, 4))]
              ELSE [d EXCEPT !.ac = NextAddr(d.ac, Bit(b, 4))]
    ELSE IF b >= LCD_DISPLAYCONTROL
         THEN [d EXCEPT !.on = Bit(b, 4), !.cursor = Bit(b, 2), !.blink = Bit(b, 1)]
    ELSE IF b >= LCD_ENTRYMODESET THEN [d EXCEPT !.id = Bit(b, 2), !.s = Bit(b, 1)]
    ELSE IF b >= LCD_RETURNHOME THEN [d EXCEPT !.ac = 0, !.shift = 0]
    ELSE IF b = LCD_CLEARDISPLAY
         THEN [d EXCEPT !.ddram = <<BlankLine, BlankLine>>, !.ac = 0, !.id = TRUE,
                        !.shift = 0]
    ELSE d

\* a character byte b (RS set)
DevData(d, b) ==
    LET row == IF d.ac >= 64 THEN 2 ELSE 1
        col == (d.ac % 64) + 1
    IN  [d EXCEPT !.ddram = IF col <= 40 THEN [@ EXCEPT ![row][col] = b] ELSE @,
                  !.ac = NextAddr(d.ac, d.id),
                  !.shift = IF d.s THEN NextShift(d.shift, ~d.id) ELSE @]

\* the controller after the logical bytes bs
RECURSIVE DevAfter(_, _)
DevAfter(d, bs) ==
    IF Len(bs) = 0 THEN d
    ELSE DevAfter(IF bs[1].rs THEN DevData(d, bs[1].byte) ELSE DevCommand(d, bs[1].byte),
                  SubSeq(bs, 2, Len(bs)))

\* the controller after the bus bytes w
Device(d, w) == DevAfter(d, LogicalBytes(w))

\* no driver call is under way
NoCalls == [main |-> << >>, cb |-> << >>, by |-> << >>]

\* the record of a driver call: the method, its arguments, the file whose
\* driver it is, the method called before it and the number of calls so far
DriverCall(op, string, line, file, before) ==
    [op |-> op, string |-> string, line |-> line, file |-> file,
     prev |-> before.op, n |-> before.n + 1]

\* what a line of the display shows: the 16 visible positions
Visible(d, line) == [n \in 1..16 |-> d.ddram[line][((d.shift + n - 1) % 40) + 1]]

\* ------------------------------------------------------------------
\* Driver calls.  A call is a record; c.op is the driver method.
\* ------------------------------------------------------------------
ClearCall == [op |-> "lcd_clear", line |-> 0, text |-> ""]
RowCall(s, l) == [op |-> "lcd_display_string", line |-> l, text |-> s]
ReopenCall == [op |-> "reopen", line |-> 0, text |-> ""]
InitCall == [op |-> "init_hw", line |-> 0, text |-> ""]

\* the row after the first k characters of text t were written over old
WrittenUpTo(old, t, k) ==
    IF k = 0 THEN old
    ELSE IF k = 16 THEN ljust16(t)
    ELSE SubSeq(ljust16(t), 1, k) \o SubSeq(old, k + 1, 16)

\* The outcomes of one driver call on the display r with bus handle state b:
\* records [ok, rows, bus].  A write_byte on the bus may raise OSError at any
\* byte; bytes sent before it have taken effect on the device.
\* lcd.lcd_clear (116-119): clear display, return home.
lcd_clear(r, b) ==
    {[ok |-> FALSE, rows |-> r, bus |-> b]}
    \cup (IF b THEN {[ok |-> FALSE, rows |-> BlankRows, bus |-> b],
                     [ok |-> TRUE, rows |-> BlankRows, bus |-> b]}
          ELSE {})

\* lcd.lcd_display_string (121-129): set the DDRAM address of the line, then
\* write the 16 characters of string.ljust(16)[:16]; an OSError after k
\* characters leaves the first k characters of the row rewritten.
lcd_display_string(r, b, c) ==
    {[ok |-> FALSE, rows |-> r, bus |-> b]}
    \cup (IF b THEN {[ok |-> FALSE,
                      rows |-> [r EXCEPT ![c.line] = WrittenUpTo(r[c.line], c.text, k)],
                      bus |-> b] : k \in (1..MaxPartial) \cup {16}}
                    \cup {[ok |-> TRUE, rows |-> [r EXCEPT ![c.line] = ljust16(c.text)],
                           bus |-> b]}
          ELSE {})

\* lcd.init_hw (86-93): the 4-bit init sequence, the configuration, lcd_clear.
init_hw(r, b) ==
    {[ok |-> FALSE, rows |-> r, bus |-> b]}
    \cup (IF b THEN {[ok |-> FALSE, rows |-> BlankRows, bus |-> b],
                     [ok |-> TRUE, rows |-> BlankRows, bus |-> b]}
          ELSE {})

\* i2c_device.reopen (37-44): close the handle (errors swallowed), then open a
\* new one with smbus.SMBus(port), outside the try: when the open raises, the
\* old handle is closed and self.bus still names it.
reopen(r, b) ==
    {[ok |-> TRUE, rows |-> r, bus |-> TRUE],
     [ok |-> FALSE, rows |-> r, bus |-> FALSE]}

CallOutcomes(c, r, b) ==
    CASE c.op = "lcd_clear" -> lcd_clear(r, b)
      [] c.op = "lcd_display_string" -> lcd_display_string(r, b, c)
      [] c.op = "init_hw" -> init_hw(r, b)
      [] c.op = "reopen" -> reopen(r, b)

\* a failure of the bus itself, as opposed to the certain OSError of a write
\* on a handle that is closed
BusFault(c, b, o) == ~o.ok /\ (b \/ c.op = "reopen")

\* the outcomes the surroundings allow: a bus fault only while the bus may
\* still fail
BusOutcomes(c, r, b) ==
    {o \in CallOutcomes(c, r, b) : BusFault(c, b, o) => env.faults > 0}

\* lcd.soft_reset (95-98): the driver calls it makes, in order
soft_reset == <<ReopenCall, InitCall>>

\* ------------------------------------------------------------------
\* Guarded LCD calls.  A frame is the position of a thread inside one:
\*   mode  "none" (not in one), "try" (running the body), "reset" (running
\*         soft_reset in an except clause), "returned", "raised"
\*   i     the index of the next driver call of the body or of soft_reset
\*   at    the index of the body call that raised last (0: none)
\*   log   history: the driver calls made so far in this invocation, each
\*         with whether it completed (ok) or raised OSError
\* The guards are of two kinds:
\*   "lcd_safe_clear"  try: body / except OSError: soft_reset(); body
\*   "range2"          for attempt in range(2): try: body; return/break
\*                                              except OSError: soft_reset()
\*   "bare"            a plain lcd.soft_reset() call (line 251)
\* ------------------------------------------------------------------
NoFrame == [mode |-> "none", i |-> 0, at |-> 0, log |-> << >>]
EnterFrame(guard) ==
    [mode |-> IF guard = "bare" THEN "reset" ELSE "try", i |-> 1, at |-> 0, log |-> << >>]

LogEntry(c, ok) == [op |-> c.op, line |-> c.line, ok |-> ok]

\* the number of attempts of the body that raised so far
BodyFaults(log) ==
    Cardinality({n \in 1..Len(log) :
                    log[n].op \in {"lcd_clear", "lcd_display_string"} /\ ~log[n].ok})

\* (changed) the retry resumes at the call that raised
RetryFromFailed(at) == at

\* the body call the retry starts with, after the call at index at raised:
\* the except clause is followed by the whole body again
RetryFrom(at) == 1

\* the frame after the body call f.i of body completed (ok) or raised
AfterBodyCall(f, body, guard, ok) ==
    LET log2 == Append(f.log, LogEntry(body[f.i], ok)) IN
    IF ok
    THEN IF f.i = Len(body) THEN [mode |-> "returned", i |-> 0, at |-> 0, log |-> log2]
         ELSE [mode |-> "try", i |-> f.i + 1, at |-> 0, log |-> log2]
    ELSE IF guard = "lcd_safe_clear" /\ BodyFaults(f.log) >= 1
         THEN [mode |-> "raised", i |-> 0, at |-> f.i, log |-> log2]
         ELSE [mode |-> "reset", i |-> 1, at |-> f.i, log |-> log2]

\* the frame after call f.i of soft_reset completed (ok) or raised
AfterResetCall(f, guard, ok) ==
    LET log2 == Append(f.log, LogEntry(soft_reset[f.i], ok)) IN
    IF ~ok THEN [mode |-> "raised", i |-> 0, at |-> f.at, log |-> log2]
    ELSE IF f.i < Len(soft_reset) THEN [mode |-> "reset", i |-> f.i + 1, at |-> f.at, log |-> log2]
    ELSE IF guard = "bare" \/ (guard = "range2" /\ BodyFaults(f.log) >= 2)
         THEN [mode |-> "returned", i |-> 0, at |-> 0, log |-> log2]
         ELSE [mode |-> "try", i |-> RetryFrom(f.at), at |-> 0, log |-> log2]

\* one driver call of the guarded call: the possible [f, rows, bus, fault]
\* after it
FrameStep(f, body, guard, r, b) ==
    IF f.mode = "try"
    THEN {[f |-> AfterBodyCall(f, body, guard, o.ok), rows |-> o.rows, bus |-> o.bus,
           fault |-> BusFault(body[f.i], b, o)] :
            o \in BusOutcomes(body[f.i], r, b)}
    ELSE {[f |-> AfterResetCall(f, guard, o.ok), rows |-> o.rows, bus |-> o.bus,
           fault |-> BusFault(soft_reset[f.i], b, o)] :
            o \in BusOutcomes(soft_reset[f.i], r, b)}

\* the surroundings after a driver call that met a bus fault, or not
Spend(e, fault) == IF fault THEN [e EXCEPT !.faults = @ - 1] ELSE e

\* ------------------------------------------------------------------
\* The timer application
\* ------------------------------------------------------------------
Max(a, b) == IF a >= b THEN a ELSE b

\* Python round(): to the nearest integer, a tie to the even one; n ticks
Round(n) ==
    LET q == n \div TicksPerSecond
        r == n % TicksPerSecond
    IN  IF 2 * r < TicksPerSecond THEN q
        ELSE IF 2 * r > TicksPerSecond THEN q + 1
        ELSE IF q % 2 = 0 THEN q ELSE q + 1

\* max(0, int(round(deadline - monotonic())))  (line 228), d and t in ticks
RemainingTime(d, t) == Max(0, Round(d - t))

\* monotonic() + TURN_SECONDS  (line 195), t in ticks
NewDeadline(t) == t + TURN_SECONDS * TicksPerSecond

\* "P1_RUNNING" if player == 1 else "P2_RUNNING"  (line 196)
RunningState(p) == IF p = 1 THEN "P1_RUNNING" ELSE "P2_RUNNING"

\* (changed) the same player again
SamePlayer(ap) == ap

\* 2 if active_player == 1 else 1  (lines 210, 215)
OtherPlayer(ap) == IF ap = 1 THEN 2 ELSE 1

\* (changed) the test for "IDLE" is missing
NextPNoIdle(st, ap) == IF ap = 1 THEN 2 ELSE 1

\* next_p of on_press (line 215)
NextP(st, ap) == IF st = "IDLE" THEN 1 ELSE OtherPlayer(ap)

\* (changed) remaining <= 1
ExpiredEarly(rem) == rem <= 1

\* remaining <= 0  (line 232)
Expired(rem) == rem <= 0

\* (changed) the comparisons are >= instead of >
lights_for_inclusive(rem) ==
    IF rem >= WARN_YELLOW THEN <<"on", "off", "off">>
    ELSE IF rem >= WARN_RED THEN <<"off", "on", "off">>
    ELSE <<"off", "off", "on">>

\* lights_for (166-172): the LEDs <<LED_G, LED_Y, LED_R>> it leaves
lights_for(rem) ==
    IF rem > WARN_YELLOW THEN <<"on", "off", "off">>
    ELSE IF rem > WARN_RED THEN <<"off", "on", "off">>
    ELSE <<"off", "off", "on">>

\* the start tones of start_turn (203-207): <<count, freq>>
StartCue(p) == <<IF p = 1 THEN 2 ELSE 3, IF p = 1 THEN 1200 ELSE 900>>
\* the timeout tones (235-237)
AlarmCue == <<1200, 1000, 800, 600, 400>>

msg_top == "Press to start"
msg_bot == "   Game Timer"

\* the body of lcd_safe_show (160-161); p is the text of {player}
ShowBody(p, rem) ==
    <<RowCall("Player " \o p, 1), RowCall("Time: " \o rjust3(rem) \o "s", 2)>>

\* The guarded LCD calls of the main thread, by the line they start at
MainSites == {"L181", "L182", "L184", "L230", "L242", "L243", "L251", "L259"}

Guard(site) ==
    CASE site \in {"L181", "L242", "L259", "L200"} -> "lcd_safe_clear"
      [] site \in {"L182", "L184", "L230", "L243"} -> "range2"
      [] site = "L251" -> "bare"

Body(site) ==
    CASE site \in {"L181", "L242", "L259", "L200"} -> <<ClearCall>>
      [] site = "L182" -> ShowBody(msg_top, 0)
      [] site = "L184" -> <<RowCall(msg_bot, 2)>>
      [] site = "L230" -> ShowBody(ToString(shown_player), remaining)
      [] site = "L243" -> <<RowCall("   TIME IS UP", 1), RowCall("Press for next", 2)>>
      [] site = "L251" -> << >>

\* the statement after the guarded call returned
ReturnTo(site) ==
    CASE site = "L181" -> "L182"
      [] site = "L182" -> "L184"
      [] site = "L184" -> "L227"
      [] site = "L230" -> "L232"
      [] site = "L242" -> "L243"
      [] site = "L243" -> "L227"
      [] site = "L251" -> "L227"
      [] site = "L259" -> "L262"

\* the statement that handles an OSError leaving the guarded call: the except
\* clause of line 250 for the timeout UI, "except Exception: pass" for the
\* clear of the finally block, the finally block itself for all others
RaiseTo(site) ==
    CASE site \in {"L242", "L243"} -> "L251"
      [] site = "L259" -> "L262"
      [] OTHER -> "L259"

\* the frame a thread has on arriving at statement l
FrameAt(l) == IF l \in MainSites \ {"L230"} THEN EnterFrame(Guard(l)) ELSE NoFrame

\* the program after lines 137-147 and 222: the devices are constructed,
\* lcd.__init__ has run init_hw, the callback is registered
Start ==
    /\ state = "IDLE"
    /\ active_player = 1
    /\ deadline = None
    /\ deadline_owner = 0
    /\ LED_G = "off" /\ LED_Y = "off" /\ LED_R = "off"
    /\ cue = << >>
    /\ rows = BlankRows
    /\ bus_open = TRUE
    /\ pc = "L181"
    /\ lw = FrameAt("L181")
    /\ seen_state = "IDLE"
    /\ seen_owner = 0
    /\ remaining = 0
    /\ shown_player = 0
    /\ exc = ""
    /\ timed_out = 0
    /\ hpc = "idle"
    /\ hw = NoFrame
    /\ player = 0
    /\ trig_state = "IDLE"
    /\ trig_player = 0
    /\ txn = NoCalls
    /\ wire = init_hw_wire
    /\ hd = Device(PowerOn, init_hw_wire)
    /\ dcall = DriverCall("init_hw", "", 0, "timer-lcd.py", [op |-> "", n |-> 0])

\* ------------------------------------------------------------------
\* The clock
\* ------------------------------------------------------------------
\* one tick passes: the deadline is one tick nearer (or further in the past)
ClockTick ==
    /\ pc # "exited"
    /\ deadline # None
    /\ deadline[1] > Elapsed
    /\ deadline' = <<deadline[1] - 1>>
    /\ UNCHANGED <<driver, state, active_player, deadline_owner, timed_out, leds, cue, device,
                   pc, lw, mainlocals, hpc, hw, cblocals, env>>

\* ------------------------------------------------------------------
\* The main thread (lines 221-264)
\* ------------------------------------------------------------------
\* one driver call inside a guarded LCD call of the main thread
main_lcd_call ==
    /\ pc \in MainSites
    /\ lw.mode \in {"try", "reset"}
    /\ \E o \in FrameStep(lw, Body(pc), Guard(pc), rows, bus_open) :
          /\ lw' = o.f
          /\ rows' = o.rows
          /\ bus_open' = o.bus
          /\ env' = Spend(env, o.fault)
    /\ UNCHANGED <<driver, session, leds, cue, pc, mainlocals, hpc, hw, cblocals>>

\* the guarded LCD call returns normally
main_lcd_return ==
    /\ pc \in MainSites
    /\ lw.mode = "returned"
    /\ pc' = ReturnTo(pc)
    /\ lw' = FrameAt(ReturnTo(pc))
    /\ shown_player' = 0
    /\ UNCHANGED <<driver, session, leds, cue, device, seen_state, seen_owner, remaining, exc,
                   hpc, hw, cblocals, env>>

\* (changed) an OSError leaving the guarded LCD call also puts the session
\* back to IDLE
main_lcd_raise_resets_session ==
    /\ pc \in MainSites
    /\ lw.mode = "raised"
    /\ pc' = RaiseTo(pc)
    /\ lw' = FrameAt(RaiseTo(pc))
    /\ exc' = IF RaiseTo(pc) = "L259" THEN "OSError" ELSE exc
    /\ shown_player' = 0
    /\ state' = "IDLE"
    /\ UNCHANGED <<driver, active_player, deadline, deadline_owner, timed_out, leds, cue, device,
                   seen_state, seen_owner, remaining, hpc, hw, cblocals, env>>

\* an OSError leaves the guarded LCD call
main_lcd_raise ==
    /\ pc \in MainSites
    /\ lw.mode = "raised"
    /\ pc' = RaiseTo(pc)
    /\ lw' = FrameAt(RaiseTo(pc))
    /\ exc' = IF RaiseTo(pc) = "L259" THEN "OSError" ELSE exc
    /\ shown_player' = 0
    /\ UNCHANGED <<driver, session, leds, cue, device, seen_state, seen_owner, remaining,
                   hpc, hw, cblocals, env>>

\* line 227: if state in ("P1_RUNNING", "P2_RUNNING")
loop_read_state_renders_timeout ==
    /\ pc = "L227"
    /\ seen_state' = state
    /\ seen_owner' = 0
    /\ pc' = IF state # "IDLE" THEN "L228" ELSE "L253"
    /\ UNCHANGED <<driver, session, leds, cue, device, lw, remaining, shown_player, exc,
                   hpc, hw, cblocals, env>>
loop_read_state ==
    /\ pc = "L227"
    /\ seen_state' = state
    /\ seen_owner' = 0
    /\ pc' = IF state \in RUNNING THEN "L228" ELSE "L253"
    /\ UNCHANGED <<driver, session, leds, cue, device, lw, remaining, shown_player, exc,
                   hpc, hw, cblocals, env>>

\* line 228: remaining = max(0, int(round(deadline - monotonic())));
\* None - float raises TypeError, which no except clause of the loop catches
loop_remaining ==
    /\ pc = "L228"
    /\ IF deadline = None
       THEN /\ pc' = "L259"
            /\ lw' = FrameAt("L259")
            /\ exc' = "TypeError"
            /\ UNCHANGED <<remaining, seen_owner>>
       ELSE /\ remaining' = RemainingTime(deadline[1], monotonic)
            /\ seen_owner' = deadline_owner
            /\ pc' = "L229"
            /\ UNCHANGED <<lw, exc>>
    /\ UNCHANGED <<driver, session, leds, cue, device, seen_state, shown_player,
                   hpc, hw, cblocals, env>>

\* line 229: lights_for(remaining)
loop_lights ==
    /\ pc = "L229"
    /\ LED_G' = lights_for(remaining)[1]
    /\ LED_Y' = lights_for(remaining)[2]
    /\ LED_R' = lights_for(remaining)[3]
    /\ pc' = "L230"
    /\ UNCHANGED <<driver, session, cue, device, lw, mainlocals, hpc, hw, cblocals, env>>

\* line 230: lcd_safe_show(active_player, remaining) is called
loop_show ==
    /\ pc = "L230"
    /\ lw.mode = "none"
    /\ shown_player' = active_player
    /\ lw' = EnterFrame(Guard("L230"))
    /\ UNCHANGED <<driver, session, leds, cue, device, pc, seen_state, seen_owner, remaining, exc,
                   hpc, hw, cblocals, env>>

\* line 232: if remaining <= 0
loop_check ==
    /\ pc = "L232"
    /\ pc' = IF Expired(remaining) THEN "L233" ELSE "L227"
    /\ UNCHANGED <<driver, session, leds, cue, device, lw, mainlocals, hpc, hw, cblocals, env>>

\* (changed) line 233 also sets deadline = None
loop_timeout_clears_deadline ==
    /\ pc = "L233"
    /\ state' = "TIMEOUT"
    /\ deadline' = None
    /\ timed_out' = PartyOf(seen_state)
    /\ pc' = "L235"
    /\ UNCHANGED <<driver, active_player, deadline_owner, leds, cue, device, lw,
                   mainlocals, hpc, hw, cblocals, env>>

\* line 233: state = "TIMEOUT"
loop_timeout ==
    /\ pc = "L233"
    /\ state' = "TIMEOUT"
    /\ timed_out' = PartyOf(seen_state)
    /\ pc' = "L235"
    /\ UNCHANGED <<driver, active_player, deadline, deadline_owner, leds, cue, device, lw,
                   mainlocals, hpc, hw, cblocals, env>>

\* lines 235-237: the timeout tones
loop_alarm_tones ==
    /\ pc = "L235"
    /\ cue' = AlarmCue
    /\ pc' = "L238"
    /\ UNCHANGED <<driver, session, leds, device, lw, mainlocals, hpc, hw, cblocals, env>>

\* lines 238-239: LED_G.off(); LED_Y.off(); LED_R.blink(...)
loop_alarm_leds ==
    /\ pc = "L238"
    /\ LED_G' = "off"
    /\ LED_Y' = "off"
    /\ LED_R' = "blink"
    /\ pc' = "L242"
    /\ lw' = FrameAt("L242")
    /\ UNCHANGED <<driver, session, cue, device, mainlocals, hpc, hw, cblocals, env>>

\* line 253: sleep(0.05)
loop_sleep ==
    /\ pc = "L253"
    /\ pc' = "L227"
    /\ UNCHANGED <<driver, session, leds, cue, device, lw, mainlocals, hpc, hw, cblocals, env>>

\* Ctrl-C: KeyboardInterrupt is raised in the main thread, at any statement
\* of the try block (223-253); control passes to the finally block
KeyboardInterrupt ==
    /\ env.interrupts
    /\ pc \notin {"L259", "L262", "exited"}
    /\ pc' = "L259"
    /\ lw' = FrameAt("L259")
    /\ exc' = "KeyboardInterrupt"
    /\ shown_player' = 0
    /\ UNCHANGED <<driver, session, leds, cue, device, seen_state, seen_owner, remaining,
                   hpc, hw, cblocals, env>>

\* lines 262-264: buzzer.close(); LED_G.close(); LED_Y.close(); LED_R.close();
\* btn.close(); the process ends
main_close ==
    /\ pc = "L262"
    /\ LED_G' = "off"
    /\ LED_Y' = "off"
    /\ LED_R' = "off"
    /\ pc' = "exited"
    /\ UNCHANGED <<driver, session, cue, device, lw, mainlocals, hpc, hw, cblocals, env>>

\* ------------------------------------------------------------------
\* The callback thread: btn.when_pressed = on_press (line 222)
\* ------------------------------------------------------------------
\* a debounced press: the callback thread calls on_press
press ==
    /\ pc # "exited"
    /\ hpc = "idle"
    /\ env.presses # 0
    /\ env' = [env EXCEPT !.presses = IF @ > 0 THEN @ - 1 ELSE @]
    /\ hpc' = "L214"
    /\ UNCHANGED <<driver, session, leds, cue, device, pc, lw, mainlocals, hw, cblocals>>

\* line 214: if state in ("IDLE", "TIMEOUT")
on_press_test ==
    /\ pc # "exited"
    /\ hpc = "L214"
    /\ trig_state' = state
    /\ trig_player' = active_player
    /\ hpc' = IF state \in {"IDLE", "TIMEOUT"} THEN "L215" ELSE "L210"
    /\ UNCHANGED <<driver, session, leds, cue, device, pc, lw, mainlocals, hw, player, env>>

\* (changed) after a timeout the turn of player 1 is started
on_press_next_p_restarts ==
    /\ pc # "exited"
    /\ hpc = "L215"
    /\ player' = 1
    /\ hpc' = "L194"
    /\ UNCHANGED <<driver, session, leds, cue, device, pc, lw, mainlocals, hw, trig_state, trig_player, env>>

\* lines 215-216: next_p = ...; start_turn(next_p)
on_press_next_p ==
    /\ pc # "exited"
    /\ hpc = "L215"
    /\ player' = NextP(state, active_player)
    /\ hpc' = "L194"
    /\ UNCHANGED <<driver, session, leds, cue, device, pc, lw, mainlocals, hw, trig_state, trig_player, env>>

\* lines 218, 210: next_player(): start_turn(2 if active_player == 1 else 1)
next_player ==
    /\ pc # "exited"
    /\ hpc = "L210"
    /\ player' = OtherPlayer(active_player)
    /\ hpc' = "L194"
    /\ UNCHANGED <<driver, session, leds, cue, device, pc, lw, mainlocals, hw, trig_state, trig_player, env>>

\* (changed) state is written first, before active_player and deadline
start_turn_player_state_first ==
    /\ pc # "exited"
    /\ hpc = "L194"
    /\ active_player' = player
    /\ state' = RunningState(player)
    /\ hpc' = "L195"
    /\ UNCHANGED <<driver, deadline, deadline_owner, timed_out, leds, cue, device, pc, lw,
                   mainlocals, hw, cblocals, env>>

\* line 194: active_player = player
start_turn_player ==
    /\ pc # "exited"
    /\ hpc = "L194"
    /\ active_player' = player
    /\ hpc' = "L195"
    /\ UNCHANGED <<driver, state, deadline, deadline_owner, timed_out, leds, cue, device, pc, lw,
                   mainlocals, hw, cblocals, env>>

\* line 195: deadline = monotonic() + TURN_SECONDS
start_turn_deadline ==
    /\ pc # "exited"
    /\ hpc = "L195"
    /\ deadline' = <<NewDeadline(monotonic)>>
    /\ deadline_owner' = player
    /\ hpc' = "L196"
    /\ UNCHANGED <<driver, state, active_player, timed_out, leds, cue, device, pc, lw, mainlocals,
                   hw, cblocals, env>>

\* line 196: state = "P1_RUNNING" if player == 1 else "P2_RUNNING"
start_turn_state ==
    /\ pc # "exited"
    /\ hpc = "L196"
    /\ state' = RunningState(player)
    /\ timed_out' = 0
    /\ hpc' = "L199"
    /\ UNCHANGED <<driver, active_player, deadline, deadline_owner, leds, cue, device, pc, lw,
                   mainlocals, hw, cblocals, env>>

\* line 199: LED_R.off(); line 200 calls lcd_safe_clear()
start_turn_led ==
    /\ pc # "exited"
    /\ hpc = "L199"
    /\ LED_R' = "off"
    /\ hpc' = "L200"
    /\ hw' = EnterFrame(Guard("L200"))
    /\ UNCHANGED <<driver, session, LED_G, LED_Y, cue, device, pc, lw, mainlocals, cblocals, env>>

\* one driver call inside lcd_safe_clear() of line 200
start_turn_lcd_call ==
    /\ pc # "exited"
    /\ hpc = "L200"
    /\ hw.mode \in {"try", "reset"}
    /\ \E o \in FrameStep(hw, Body("L200"), Guard("L200"), rows, bus_open) :
          /\ hw' = o.f
          /\ rows' = o.rows
          /\ bus_open' = o.bus
          /\ env' = Spend(env, o.fault)
    /\ UNCHANGED <<driver, session, leds, cue, pc, lw, mainlocals, hpc, cblocals>>

\* lcd_safe_clear() of line 200 returns
start_turn_lcd_return ==
    /\ pc # "exited"
    /\ hpc = "L200"
    /\ hw.mode = "returned"
    /\ hpc' = "L203"
    /\ hw' = NoFrame
    /\ UNCHANGED <<driver, session, leds, cue, device, pc, lw, mainlocals, cblocals, env>>

\* lcd_safe_clear() of line 200 raises OSError: nothing in start_turn or
\* on_press catches it, the callback ends without the start tones
start_turn_lcd_raise ==
    /\ pc # "exited"
    /\ hpc = "L200"
    /\ hw.mode = "raised"
    /\ hpc' = "idle"
    /\ hw' = NoFrame
    /\ player' = 0
    /\ trig_state' = "IDLE"
    /\ trig_player' = 0
    /\ UNCHANGED <<driver, session, leds, cue, device, pc, lw, mainlocals, env>>

\* lines 203-207: the start tones; on_press returns
start_turn_tones ==
    /\ pc # "exited"
    /\ hpc = "L203"
    /\ cue' = StartCue(player)
    /\ hpc' = "idle"
    /\ player' = 0
    /\ trig_state' = "IDLE"
    /\ trig_player' = 0
    /\ UNCHANGED <<driver, session, leds, device, pc, lw, mainlocals, hw, env>>

Main ==
    \/ main_lcd_call \/ main_lcd_return \/ main_lcd_raise
    \/ loop_read_state \/ loop_remaining \/ loop_lights \/ loop_show \/ loop_check
    \/ loop_timeout \/ loop_alarm_tones \/ loop_alarm_leds \/ loop_sleep
    \/ main_close

Callback ==
    \/ on_press_test \/ on_press_next_p \/ next_player
    \/ start_turn_player \/ start_turn_deadline \/ start_turn_state \/ start_turn_led
    \/ start_turn_lcd_call \/ start_turn_lcd_return \/ start_turn_lcd_raise
    \/ start_turn_tones

\* The surroundings of a run are one of two kinds:
\* an I2C bus that may fail at any byte, MaxFaults times in all, with Ctrl-C
\* possible and at most MaxPresses presses of the button;
Unreliable == [faults |-> MaxFaults, interrupts |-> TRUE, presses |-> MaxPresses]
\* a reliable bus, no Ctrl-C, and any number of presses
Reliable == [faults |-> 0, interrupts |-> FALSE, presses |-> Unlimited]

Init == Start /\ env \in {Unreliable, Reliable}

Next == Main \/ Callback \/ press \/ KeyboardInterrupt \/ ClockTick

Spec == Init /\ [][Next]_vars

\* ------------------------------------------------------------------
\* The driver by itself: its methods called one after another, in any
\* order, with texts shorter than, as long as and longer than a row, on a
\* bus that works.  The program does not move.
\* ------------------------------------------------------------------
\* the calls in one run
MaxCalls == 4

DriverTexts ==
    {"", "Hi", "   TIME IS UP", "Press for next!!", "Game Night Buzzer",
     "ABCDEFGHIJKLMNOPQR"}

\* the method op wrote bytes to the bus
Called(op, string, line, file, bytes) ==
    /\ wire' = bytes
    /\ hd' = Device(hd, wire')
    /\ dcall' = DriverCall(op, string, line, file, dcall)
    /\ txn' = txn

\* lcd.init_hw()
drv_init_hw ==
    /\ dcall.n < MaxCalls
    /\ Called("init_hw", "", 0, "timer-lcd.py", init_hw_wire)
    /\ UNCHANGED program

\* lcd.lcd_clear()
drv_lcd_clear ==
    /\ dcall.n < MaxCalls
    /\ Called("lcd_clear", "", 0, "timer-lcd.py", lcd_clear_wire)
    /\ UNCHANGED program

\* lcd.lcd_display_string(string, line) of timer-lcd.py
drv_lcd_display_string ==
    /\ dcall.n < MaxCalls
    /\ \E string \in DriverTexts, line \in {1, 2} :
            Called("lcd_display_string", string, line, "timer-lcd.py",
                   lcd_display_string_wire(string, line))
    /\ UNCHANGED program

\* lcd.lcd_display_string(string, line) of 1-lcd.py
drv_lcd_display_string_1lcd ==
    /\ dcall.n < MaxCalls
    /\ \E string \in DriverTexts, line \in {1, 2} :
            Called("lcd_display_string", string, line, "1-lcd.py",
                   lcd_display_string_1lcd(string, line))
    /\ UNCHANGED program

DriverInit == Start /\ env = Reliable

DriverNext ==
    \/ drv_init_hw \/ drv_lcd_clear
    \/ drv_lcd_display_string \/ drv_lcd_display_string_1lcd

DriverSpec == DriverInit /\ [][DriverNext]_vars

\* ------------------------------------------------------------------
\* The bus under the two threads.  The lcd object is shared by the main
\* thread (lcd_safe_show and the other guarded calls of the loop) and the
\* callback thread (lcd_safe_clear in start_turn, line 200), and no lock
\* is taken around its methods (150-164, 191-200).  A driver method writes
\* its bytes one by one, each followed by sleep(0.0001) (45-47), where the
\* interpreter may run the other thread.  Here each thread makes one driver
\* call and the bytes go to the bus in the order the threads write them.
\* ------------------------------------------------------------------
\* the bus writes followed in one run
MaxBusWrites == 8

\* the bytes put on the bus since the constructor returned
OnBus == SubSeq(wire, Len(init_hw_wire) + 1, Len(wire))

\* thread t has put a byte of its call on the bus
HasWritten(t) == \E i \in 1..Len(txn.by) : txn.by[i] = t

\* thread t writes the next byte of its call
BusWrite(t, todo) ==
    /\ todo # << >>
    /\ Len(txn.by) < MaxBusWrites
    /\ wire' = Append(wire, Head(todo))
    /\ hd' = Device(PowerOn, wire')
    /\ dcall' = dcall

\* the main thread calls lcd.lcd_display_string(f"Player {player}", 1) (line
\* 160) or lcd.lcd_clear() (lcd_safe_clear, line 152)
bus_main_call ==
    /\ txn.main = << >> /\ ~HasWritten("main")
    /\ \E bytes \in {lcd_display_string_wire("Player 1", 1), lcd_clear_wire} :
            txn' = [txn EXCEPT !.main = bytes]
    /\ UNCHANGED <<wire, hd, dcall, program>>

bus_main_write ==
    /\ BusWrite("main", txn.main)
    /\ txn' = [txn EXCEPT !.main = Tail(@), !.by = Append(@, "main")]
    /\ UNCHANGED program

\* the callback thread calls lcd.lcd_clear() (start_turn, line 200, 152)
bus_cb_call ==
    /\ txn.cb = << >> /\ ~HasWritten("cb")
    /\ txn' = [txn EXCEPT !.cb = lcd_clear_wire]
    /\ UNCHANGED <<wire, hd, dcall, program>>

bus_cb_write ==
    /\ BusWrite("cb", txn.cb)
    /\ txn' = [txn EXCEPT !.cb = Tail(@), !.by = Append(@, "cb")]
    /\ UNCHANGED program

BusInit == Start /\ env = Reliable

BusNext == bus_main_call \/ bus_main_write \/ bus_cb_call \/ bus_cb_write

BusSpec == BusInit /\ [][BusNext]_vars

\* The program in reliable surroundings only: no OSError is raised and the
\* loop never ends, so the steps that follow an exception are left out of the
\* next-state relation
QuietInit == Start /\ env = Reliable

QuietMain ==
    \/ main_lcd_call \/ main_lcd_return
    \/ loop_read_state \/ loop_remaining \/ loop_lights \/ loop_show \/ loop_check
    \/ loop_timeout \/ loop_alarm_tones \/ loop_alarm_leds \/ loop_sleep

QuietCallback ==
    \/ on_press_test \/ on_press_next_p \/ next_player
    \/ start_turn_player \/ start_turn_deadline \/ start_turn_state \/ start_turn_led
    \/ start_turn_lcd_call \/ start_turn_lcd_return
    \/ start_turn_tones

QuietNext == QuietMain \/ QuietCallback \/ press \/ ClockTick

QuietSpec == QuietInit /\ [][QuietNext]_vars

TypeOK ==
    /\ state \in {"IDLE", "P1_RUNNING", "P2_RUNNING", "TIMEOUT"}
    /\ active_player \in {1, 2}
    /\ deadline = None \/ (Len(deadline) = 1 /\ deadline[1] \in Elapsed..NewDeadline(monotonic))
    /\ timed_out \in 0..2
    /\ env.faults \in 0..MaxFaults
    /\ remaining \in 0..TURN_SECONDS
    /\ Len(rows[1]) = 16 /\ Len(rows[2]) = 16

\* ------------------------------------------------------------------
\* Properties
\* ------------------------------------------------------------------
\* a guarded LCD call of either thread that has just returned normally
Returned(f) == f.mode = "returned"

\* the entries of a log for the driver calls cs, all completed
Completed(cs) == [n \in 1..Len(cs) |-> LogEntry(cs[n], TRUE)]

\* the log of a guarded call whose body raised once at its call k + 1 and
\* was then run again in full after a complete soft_reset
RecoveredLog(body, k) ==
    Completed(SubSeq(body, 1, k)) \o <<LogEntry(body[k + 1], FALSE)>>
        \o Completed(soft_reset) \o Completed(body)

\* the driver calls of a log that completed and wrote a row
RowsWritten(log) ==
    {n \in 1..Len(log) : log[n].op = "lcd_display_string" /\ log[n].ok}

\* C1: in every tick of the polling loop, the deadline read at line 228 and
\* the active player read at line 230 belong to the turn whose phase line 227
\* read.
C1_TickReadsOneTurn ==
    /\ pc \in {"L229", "L230", "L232", "L233"} => seen_owner = PartyOf(seen_state)
    /\ (pc = "L230" /\ shown_player # 0) => shown_player = PartyOf(seen_state)

\* C2: the loop changes state to "TIMEOUT" only while the session is still in
\* the turn the loop read in that tick: the state is the one line 227 read and
\* the deadline is the one line 228 read, no start_turn has written since.
C2_NoStaleExpiry ==
    [][(state' = "TIMEOUT" /\ state # "TIMEOUT")
          => (state = seen_state /\ deadline_owner = seen_owner)]_vars

\* C3 as stated: deadline is present if and only if the phase is TURN(_).
C3_DeadlineIffTurn == (deadline # None) <=> (state \in RUNNING)

\* C3 as amended: deadline is present in every phase but IDLE; it is present
\* in TURN(_) and stays present (never reset to None) in TIMEOUT.
C3_DeadlineOnceStarted == state # "IDLE" => deadline # None

C3_TimeoutKeepsDeadline == state = "TIMEOUT" /\ deadline # None /\ hpc = "idle"

\* C4: a trigger handled in phase TURN(p) makes start_turn write
\* active_player = other(p), deadline = now + TURN_SECONDS with now read at
\* line 195, and state = TURN(other(p)).
C4_TriggerInTurnSwitches ==
    [][/\ (hpc = "L195" /\ hpc' = "L196" /\ trig_state \in RUNNING)
            => /\ active_player = 3 - PartyOf(trig_state)
               /\ deadline' = <<monotonic + TURN_SECONDS * TicksPerSecond>>
       /\ (hpc = "L196" /\ hpc' = "L199" /\ trig_state \in RUNNING)
            => /\ state' = (IF PartyOf(trig_state) = 1 THEN "P2_RUNNING" ELSE "P1_RUNNING")
               /\ active_player' = 3 - PartyOf(trig_state)
               /\ deadline' # None]_vars

\* a press during player 1's turn has just started player 2's
C4_SwitchedToPlayer2 ==
    /\ hpc = "L199" /\ trig_state = "P1_RUNNING"
    /\ state = "P2_RUNNING" /\ active_player = 2
    /\ deadline = <<monotonic + TURN_SECONDS * TicksPerSecond>>

\* C5: a trigger handled in phase IDLE makes start_turn write
\* active_player = 1, deadline = now + TURN_SECONDS and state = TURN(1).
C5_TriggerInIdleStartsPlayer1 ==
    [][/\ (hpc = "L195" /\ hpc' = "L196" /\ trig_state = "IDLE")
            => /\ active_player = 1
               /\ deadline' = <<monotonic + TURN_SECONDS * TicksPerSecond>>
       /\ (hpc = "L196" /\ hpc' = "L199" /\ trig_state = "IDLE")
            => /\ state' = "P1_RUNNING"
               /\ active_player' = 1
               /\ deadline' # None]_vars

C5_StartedFromIdle ==
    /\ hpc = "L199" /\ trig_state = "IDLE"
    /\ state = "P1_RUNNING" /\ active_player = 1 /\ deadline # None

\* C6: a trigger handled in phase TIMEOUT starts the turn of the player other
\* than the one whose turn timed out.
C6_TriggerInTimeoutStartsOther ==
    [][(hpc = "L196" /\ hpc' = "L199" /\ trig_state = "TIMEOUT")
          => state' = (IF timed_out = 1 THEN "P2_RUNNING" ELSE "P1_RUNNING")]_vars

\* C7: a turn that no trigger ends is ended by the loop, in TIMEOUT.  Only
\* the loop's line 233 writes "TIMEOUT", so the claim needs the loop to be
\* alive for as long as a turn runs: the program never stops by itself (an
\* exception other than Ctrl-C) with a turn still running.
C7_TurnEndsInTimeout ==
    (pc = "exited" /\ exc # "KeyboardInterrupt") => state \notin RUNNING

\* C8 as stated: the session enters TIMEOUT only by line 233 of the loop,
\* and only at an instant at which the deadline has passed.
C8_TimeoutOnlyAfterDeadline ==
    [][(state' = "TIMEOUT" /\ state # "TIMEOUT")
          => /\ pc = "L233" /\ hpc' = hpc
             /\ deadline # None
             /\ deadline[1] <= monotonic]_vars

\* C8 as amended: the session enters TIMEOUT only by line 233 of the loop,
\* and only in a tick whose remaining is 0, that is, a tick in which the
\* deadline read at line 228 was at most half a second ahead of the clock.
C8_TimeoutOnlyWhenRemainingIsZero ==
    [][/\ (state' = "TIMEOUT" /\ state # "TIMEOUT")
            => (pc = "L233" /\ hpc' = hpc /\ remaining = 0)
       /\ (pc = "L228" /\ pc' = "L229" /\ remaining' = 0)
            => 2 * (deadline[1] - monotonic) <= TicksPerSecond]_vars

\* TIMEOUT was entered half a second before the deadline of the turn the
\* loop read, with no press in between
C8_TimedOutEarly ==
    /\ pc = "L235" /\ state = "TIMEOUT" /\ hpc = "idle"
    /\ seen_owner = deadline_owner
    /\ deadline # None
    /\ deadline[1] > monotonic
    /\ 2 * (deadline[1] - monotonic) <= TicksPerSecond

\* C9: a guarded LCD call whose body raised OSError on the first attempt and
\* again on the retry does not return normally.
C9_SecondFaultPropagates ==
    /\ Returned(lw) => BodyFaults(lw.log) < 2
    /\ Returned(hw) => BodyFaults(hw.log) < 2

\* C10 as stated: when a guarded LCD call returns after one fault and a
\* successful recovery and retry, no row was written twice.
C10_NoRowWrittenTwice ==
    (Returned(lw) /\ BodyFaults(lw.log) = 1)
        => \A m, n \in RowsWritten(lw.log) : lw.log[m].line = lw.log[n].line => m = n

\* C10 as amended: when a guarded LCD call returns after one fault, the
\* driver calls it made are: the calls of the body that completed before the
\* fault, the call that raised, one complete soft_reset (which clears the
\* display), and then every call of the body once more, each exactly once.
C10_RetryRendersWholeBodyOnce ==
    /\ (Returned(lw) /\ BodyFaults(lw.log) = 1)
          => \E k \in 0..(Len(Body(pc)) - 1) : lw.log = RecoveredLog(Body(pc), k)
    /\ (Returned(hw) /\ BodyFaults(hw.log) = 1)
          => hw.log = RecoveredLog(Body("L200"), 0)

\* lcd_safe_show returned after its second row raised once: row 1 was
\* written before the fault and again after the recovery
C10_Row1WrittenAgain ==
    /\ pc = "L230" /\ Returned(lw)
    /\ lw.log = RecoveredLog(Body("L230"), 1)

\* the number of times a guarded call started lcd.soft_reset()
Recoveries(log) == Cardinality({n \in 1..Len(log) : log[n].op = "reopen"})

\* C11: in one invocation of a guarded LCD call the body is attempted at most
\* twice and the recovery (lcd.soft_reset) is started at most once.
C11_OneRecoveryPerCall ==
    \A f \in {lw, hw} : BodyFaults(f.log) <= 2 /\ Recoveries(f.log) <= 1

\* C12: display faults never stop the timer: no OSError of the display path
\* leaves the polling loop, under any pattern of bus faults.
C12_FaultsNeverEndLoop == exc # "OSError"

\* a step in which only the clock advanced: the deadline instant is the same,
\* one tick nearer
ClockOnly ==
    /\ deadline # None /\ deadline' = <<deadline[1] - 1>>
    /\ pc' = pc /\ hpc' = hpc /\ lw' = lw /\ hw' = hw

\* a step that assigns state, active_player or deadline
SessionWritten ==
    \/ state' # state
    \/ active_player' # active_player
    \/ (deadline' # deadline /\ ~ClockOnly)

\* C13: the session (state, active_player, deadline) is changed only by lines
\* 194-196 of start_turn and by line 233 of the loop; no step of a guarded
\* LCD call, whether it succeeds, recovers or fails twice, changes it.
C13_DisplayLeavesSession ==
    [][/\ SessionWritten
            => \/ (hpc \in {"L194", "L195", "L196"} /\ hpc' # hpc /\ pc' = pc)
               \/ (pc = "L233" /\ pc' = "L235" /\ hpc' = hpc)
       /\ (lw' # lw \/ hw' # hw \/ rows' # rows \/ bus_open' # bus_open)
            => ~SessionWritten]_vars

\* lcd_safe_show failed twice during player 1's turn
C13_ShowFailedTwiceInTurn ==
    /\ pc = "L230" /\ Returned(lw) /\ BodyFaults(lw.log) = 2
    /\ state = "P1_RUNNING" /\ active_player = 1 /\ deadline # None

\* C14: i2c_device.reopen() never raises: every reopen call made by a
\* recovery returns normally.
C14_ReopenNeverRaises ==
    \A f \in {lw, hw} : \A n \in 1..Len(f.log) : f.log[n].op = "reopen" => f.log[n].ok

Codes(s) == [i \in 1..Len(s) |-> ord(SubSeq(s, i, i))]

\* the character-data bytes among the bus bytes w: the bytes the controller
\* assembles with RS set
CharBytes(w) ==
    LET data == SelectSeq(LogicalBytes(w), LAMBDA b : b.rs)
    IN  [k \in 1..Len(data) |-> data[k].byte]

\* C16: lcd_display_string emits exactly 16 character-data bytes whatever the
\* text: the codes of the text cut to its first 16 characters and padded on
\* the right with spaces.
C16_RowIsSixteenCharacters ==
    dcall.op = "lcd_display_string" =>
        /\ Len(CharBytes(wire)) = 16
        /\ CharBytes(wire) = Codes(ljust16(dcall.string))

\* the logical state of the display: DDRAM contents, cursor address, entry
\* mode and whether the display is on
Logical(d) == <<d.ddram, d.ac, d.id, d.s, d.on>>

\* C19: lcd_clear called right after lcd_clear leaves the display in the
\* logical state the first call left it in: blank DDRAM, cursor at address
\* 0, entry mode and display-on state as they were.
C19_ClearTwiceIsClearOnce ==
    [][(dcall.op = "lcd_clear" /\ dcall'.op = "lcd_clear") =>
            Logical(hd') = Logical(hd)]_vars

\* lcd_clear followed lcd_clear on a display that had been written to, and
\* the display is blank with the cursor home
C19_ClearedTwice ==
    /\ dcall.op = "lcd_clear" /\ dcall.prev = "lcd_clear" /\ dcall.n = MaxCalls
    /\ wire = lcd_clear_wire
    /\ hd.ddram = <<BlankLine, BlankLine>> /\ hd.ac = 0 /\ hd.on

\* the instruction bytes the controller assembles from the bus bytes w
Commands(w) == [k \in 1..Len(LogicalBytes(w)) |-> LogicalBytes(w)[k].byte]

\* C20: init_hw sends, with RS clear throughout, exactly the instruction
\* bytes 0x03, 0x03, 0x03, 0x02, 0x28, 0x0C, 0x06, 0x01, 0x02 in this order,
\* and the display-shift bit (bit 0 of the entry-mode instruction) is not set.
C20_InitSequence ==
    dcall.op = "init_hw" =>
        /\ \A i \in 1..Len(wire) : ~Bit(wire[i], Rs)
        /\ Commands(wire) = <<3, 3, 3, 2, 40, 12, 6, 1, 2>>
        /\ \A k \in 1..Len(Commands(wire)) :
                Commands(wire)[k] \in 4..7 => ~Bit(Commands(wire)[k], 1)
        /\ ~hd.s

\* init_hw ran again after a row was written: the display is on, blank, with
\* two lines, incrementing and not shifting
C20_Reinitialised ==
    /\ dcall.op = "init_hw" /\ dcall.prev = "lcd_display_string"
    /\ hd.on /\ hd.twoline /\ hd.id /\ ~hd.s
    /\ hd.ddram = <<BlankLine, BlankLine>>

\* ------------------------------------------------------------------
\* The timeout branch (232-251)
\* ------------------------------------------------------------------
\* the sustained alarm: the red LED blinks, green and yellow are off
AlarmPattern == LED_R = "blink" /\ LED_G = "off" /\ LED_Y = "off"

\* C17: on a display without faults the timeout branch first emits the
\* descending alarm cue, then switches the LEDs to the alarm pattern, then
\* renders row 1 as "   TIME IS UP" padded to 16 characters; when the last of
\* these steps is done the state is TIMEOUT, the alarm pattern is active and
\* row 1 shows the message.
C17_TimeoutEntry ==
    [][/\ (pc = "L233" /\ pc' = "L235") => state' = "TIMEOUT"
       /\ (pc = "L235" /\ pc' = "L238") => cue' = AlarmCue
       /\ (pc = "L238" /\ pc' = "L242") => AlarmPattern'
       /\ (pc = "L243" /\ pc' = "L227") =>
                /\ state' = "TIMEOUT"
                /\ AlarmPattern'
                /\ rows'[1] = ljust16("   TIME IS UP")]_vars

\* C18: the red LED blinks only while state is "TIMEOUT": once on_press has
\* started a turn and returned the blink is off, and the blink is switched on
\* only in state "TIMEOUT", that is not again before a turn has expired.
C18_AlarmOnlyInTimeout ==
    [][/\ (LED_R' = "blink" /\ hpc' = "idle") => state' = "TIMEOUT"
       /\ (LED_R # "blink" /\ LED_R' = "blink") => state = "TIMEOUT"
       /\ (hpc = "L199" /\ hpc' # "L199") => LED_R' # "blink"]_vars

\* the logical bytes a driver call hands to lcd_write, in order, each with
\* the mode it is sent in (rs: the mode argument is Rs)
Cmd(b) == [rs |-> FALSE, byte |-> b]
Chr(b) == [rs |-> TRUE, byte |-> b]
Sent(c) ==
    CASE c.op = "init_hw" ->
            <<Cmd(3), Cmd(3), Cmd(3), Cmd(2), Cmd(40), Cmd(12), Cmd(6), Cmd(1), Cmd(2)>>
      [] c.op = "lcd_clear" -> <<Cmd(1), Cmd(2)>>
      [] c.op = "lcd_display_string" /\ c.file = "timer-lcd.py" ->
            <<Cmd(IF c.line = 1 THEN 128 ELSE 192)>>
                \o [k \in 1..16 |-> Chr(ord(SubSeq(ljust16(c.string), k, k)))]
      [] c.op = "lcd_display_string" /\ c.file = "1-lcd.py" ->
            <<Cmd(IF c.line = 1 THEN 6 ELSE 192)>>
                \o [k \in 1..Len(ljust(c.string)) |-> Chr(ord(SubSeq(ljust(c.string), k, k)))]

\* the bus writes of the k-th logical byte: six, three for each nibble
Group(w, k) == SubSeq(w, 6 * k - 5, 6 * k)

\* bus writes i, i + 1, i + 2 of g carry a nibble: the nibble with E clear,
\* the nibble with E set, the same nibble with E clear again
Strobed(g, i, nib) ==
    /\ g[i] \div 16 = nib /\ g[i + 1] \div 16 = nib /\ g[i + 2] \div 16 = nib
    /\ ~Bit(g[i], En) /\ Bit(g[i + 1], En) /\ ~Bit(g[i + 2], En)

\* C21: every logical byte goes out as its high nibble, then its low nibble;
\* each nibble is latched by a bus write with E set followed by a bus write
\* of the same nibble with E clear; RS is clear on every bus write of a
\* command byte and set on every bus write of a character byte.
C21_NibbleFraming ==
    LET sent == Sent(dcall)
    IN  /\ Len(wire) = 6 * Len(sent)
        /\ \A k \in 1..Len(sent) :
              LET g == Group(wire, k)
                  b == sent[k]
              IN  /\ Strobed(g, 1, b.byte \div 16)
                  /\ Strobed(g, 4, b.byte % 16)
                  /\ \A i \in 1..6 : Bit(g[i], Rs) = b.rs

\* a row was written by the driver of timer-lcd.py: one command byte and
\* sixteen character bytes, 102 bus writes
C21_RowOnTheWire ==
    /\ dcall.op = "lcd_display_string" /\ dcall.file = "timer-lcd.py"
    /\ dcall.string = "Hi" /\ dcall.line = 2
    /\ Len(wire) = 102
    /\ LogicalBytes(wire) = Sent(dcall)

\* C22: every byte a driver call writes to the bus (init_hw, also as the
\* second half of soft_reset, lcd_clear, lcd_display_string) has the
\* backlight bit 0x08 set and the read/write bit 0x02 clear.
C22_BacklightSetReadWriteClear ==
    \A i \in 1..Len(wire) : Bit(wire[i], LCD_BACKLIGHT) /\ ~Bit(wire[i], Rw)

\* the timeout message went out on line 1: character nibbles were strobed
C22_MessageOnTheWire ==
    /\ dcall.op = "lcd_display_string" /\ dcall.string = "   TIME IS UP" /\ dcall.line = 1
    /\ \E i \in 1..Len(wire) : Bit(wire[i], Rs) /\ Bit(wire[i], En)
    /\ \E i \in 1..Len(wire) : ~Bit(wire[i], Rs) /\ Bit(wire[i], En)

\* the other line of the display
OtherLine(line) == 3 - line

\* C23: lcd_display_string sends the set-DDRAM-address command of the line
\* (0x80 for line 1, 0xC0 for line 2) as a command byte and only then the
\* characters; after the call the line shows the padded text at columns
\* 0..15 whatever it showed before, and the other line is as it was.
C23_RowAddressedThenWritten ==
    [][(dcall'.op = "lcd_display_string" /\ dcall'.file = "timer-lcd.py") =>
          LET bytes == LogicalBytes(wire')
          IN  /\ bytes[1] = Cmd(IF dcall'.line = 1 THEN 128 ELSE 192)
              /\ \A k \in 2..Len(bytes) : bytes[k].rs
              /\ Visible(hd', dcall'.line) = Codes(ljust16(dcall'.string))
              /\ hd'.ddram[OtherLine(dcall'.line)] = hd.ddram[OtherLine(dcall'.line)]]_vars

\* "Hi" was written on line 2 as the third call after the constructor, and
\* line 1 still shows the timeout message written before
C23_ShortOverLong ==
    /\ dcall.op = "lcd_display_string" /\ dcall.file = "timer-lcd.py"
    /\ dcall.string = "Hi" /\ dcall.line = 2 /\ dcall.n = 4
    /\ Visible(hd, 2) = Codes(ljust16("Hi"))
    /\ Visible(hd, 1) = Codes(ljust16("   TIME IS UP"))

\* ------------------------------------------------------------------
\* The ticks of the polling loop (226-253)
\* ------------------------------------------------------------------
\* the main thread takes a step
MainStep == pc' # pc \/ lw' # lw

\* the statements of a tick that render or declare the timeout (228-251)
RenderLines == {"L228", "L229", "L230", "L232", "L233", "L235", "L238", "L242", "L243", "L251"}

\* C24: the loop renders (LEDs, display rows) only in ticks in which line 227
\* read a RUNNING state; in a tick in which it read IDLE or TIMEOUT it only
\* sleeps (line 253), and the LEDs, the display and the session are left as
\* they were.
C24_RendersOnlyInTurn ==
    [][MainStep =>
          /\ pc \in RenderLines => seen_state \in RUNNING
          /\ pc = "L227" =>
                /\ pc' = (IF seen_state' \in RUNNING THEN "L228" ELSE "L253")
                /\ UNCHANGED <<session, leds, cue, device>>
          /\ pc = "L253" =>
                /\ seen_state \notin RUNNING
                /\ pc' = "L227"
                /\ UNCHANGED <<session, leds, cue, device>>]_vars

\* a tick that read TIMEOUT has slept: the alarm blinks on, the timeout
\* message stays
C24_SleptInTimeout ==
    /\ pc = "L227" /\ seen_state = "TIMEOUT" /\ state = "TIMEOUT"
    /\ LED_R = "blink" /\ rows[1] = ljust16("   TIME IS UP")

\* C25: every start_turn(p) plays the start cue of p after LED_R.off() and
\* lcd_safe_clear(): 2 beeps at 1200 Hz for player 1, 3 beeps at 900 Hz for
\* player 2; no start_turn ends without its cue.
C25_EveryTurnGetsItsCue ==
    [][(hpc \in {"L194", "L195", "L196", "L199", "L200", "L203"} /\ hpc' = "idle") =>
          /\ hpc = "L203"
          /\ player = 1 => cue' = <<2, 1200>>
          /\ player = 2 => cue' = <<3, 900>>]_vars

\* C26: on every way out of the main loop (Ctrl-C or an exception nothing
\* catches) the cleanup runs to its end, also when the last display clear
\* faults: once the process has ended the bus handle has been released and
\* the three LEDs are off; and the finally block, once entered, is left only
\* by its last statement.
C26_CleanupCompletes ==
    [][/\ pc' = "exited" => ~bus_open' /\ LED_G' = "off" /\ LED_Y' = "off" /\ LED_R' = "off"
       /\ (pc = "L259" /\ pc' # pc) => pc' = "L262"
       /\ (pc = "L262" /\ pc' # pc) => pc' = "exited"]_vars

\* C27: the players of the turns started one after another alternate,
\* beginning with player 1, whether the turn before ended by a press or by a
\* timeout: start_turn is called for player 1 when no turn was started
\* before and for the other player than that of the turn started last, and
\* it starts the turn of that player.
C27_TurnsAlternate ==
    [][/\ (hpc = "L194" /\ hpc' = "L195") =>
                active_player' = (IF deadline_owner = 0 THEN 1 ELSE 3 - deadline_owner)
       /\ (hpc = "L196" /\ hpc' = "L199") =>
                /\ active_player = deadline_owner
                /\ state' = RunningState(deadline_owner)]_vars

\* player 1's turn timed out and a press in TIMEOUT has started player 2's
C27_TurnAfterTimeout ==
    /\ hpc = "L199" /\ trig_state = "TIMEOUT" /\ trig_player = 1
    /\ state = "P2_RUNNING" /\ active_player = 2 /\ deadline_owner = 2

\* C28: line 228 never computes deadline - monotonic() with deadline = None:
\* whenever line 227 has read a RUNNING state the deadline is set, under any
\* interleaving with on_press, because start_turn writes active_player and
\* deadline before it writes state.
C28_DeadlineSetWhenRead ==
    [][/\ pc' = "L228" => deadline' # None
       /\ exc' # "TypeError"
       /\ (state' \in RUNNING /\ state' # state) =>
                /\ deadline # None
                /\ active_player = PartyOf(state') /\ deadline_owner = PartyOf(state')]_vars

\* the loop has read RUNNING right after line 196 wrote it, the first turn:
\* start_turn has not yet gone on to line 199 and the deadline is there
C28_ReadRightAfterStart ==
    /\ pc = "L228" /\ hpc = "L199" /\ trig_state = "IDLE"
    /\ seen_state = "P1_RUNNING"
    /\ deadline = <<NewDeadline(monotonic)>>

\* ------------------------------------------------------------------
\* The bus under the two threads
\* ------------------------------------------------------------------
\* thread t is in the middle of a driver call: it has written some of its
\* bytes and has more to write
MidCall(t) == HasWritten(t) /\ txn[t] # << >>

\* C29: the bus bytes of two driver calls are never interleaved: while one
\* thread is in the middle of a call the other thread writes nothing to the
\* bus, so the nibbles of every logical byte reach the display one after
\* another.
C29_BusWritesNotInterleaved ==
    [][Len(txn'.by) > Len(txn.by) =>
          IF txn'.by[Len(txn'.by)] = "main" THEN ~MidCall("cb") ELSE ~MidCall("main")]_vars

\* C30: lcd_idle() at startup, on a display that does not fault, leaves
\* "Press to start" on row 1 and "   Game Timer" on row 2, each padded to 16
\* characters.
C30_IdleScreen ==
    [][(pc = "L184" /\ pc' = "L227" /\ hpc = "idle" /\ state = "IDLE") =>
          rows' = <<ljust16(msg_top), ljust16(msg_bot)>>]_vars

=============================================================================
